---------------------------- MODULE Spec2Model ----------------------------
(***************************************************************************)
(* A model of the lossy-channel simulator of src/simulation.py             *)
(* (NetworkSimulator) and of its packet codec, src/packet.py (Packet).     *)
(*                                                                         *)
(* Python floats are modelled as exact rationals <<num, den>> (den > 0, in *)
(* lowest terms).  The comparisons the controller makes (k/10 > 0.3,       *)
(* k/10 < 0.1) have the same outcome in IEEE doubles for every k in 0..10, *)
(* and 0.5*0.8 = 0.4, 0.4*1.2 = 0.48 are exact there too.                  *)
(***************************************************************************)
EXTENDS Integers, Sequences, FiniteSets, TLC

(***************************************************************************)
(* Bounds of the model.                                                    *)
(***************************************************************************)
\* transmit processes handed to the scheduler in one run
MaxAttempts == 10
\* attempts of one run in which something raises (encode or persistence)
MaxFaults == 1
\* transmit processes suspended in their delay at the same time
MaxPending == 2
\* transmit processes of a run whose processes are told apart
NumProcs == 3

(***************************************************************************)
(* Exact rational arithmetic for the float fields.                         *)
(***************************************************************************)
RECURSIVE GCD(_, _)
GCD(a, b) == IF b = 0 THEN a ELSE GCD(b, a % b)

Rat(n, d) == LET g == GCD(IF n < 0 THEN -n ELSE n, d) IN <<n \div g, d \div g>>

RatMul(x, y) == Rat(x[1] * y[1], x[2] * y[2])

RatLess(x, y) == x[1] * y[2] < y[1] * x[2]

\* Python's max(a, b) and min(a, b): the first argument wins a tie
RatMax(x, y) == IF RatLess(x, y) THEN y ELSE x

RatMin(x, y) == IF RatLess(y, x) THEN y ELSE x

(***************************************************************************)
(* NetworkSimulator.__init__: the constants of the controller.             *)
(***************************************************************************)
adaptive_window == 10

min_error_rate == Rat(1, 20)

max_error_rate == Rat(1, 2)

\* the thresholds and the steps of adjust_error_rate
HighLoss == Rat(3, 10)

LowLoss == Rat(1, 10)

DecayStep == Rat(4, 5)

GrowStep == Rat(6, 5)

(***************************************************************************)
(* adjust_error_rate, as a function of the two fields it reads.            *)
(***************************************************************************)
\* packet_loss[-n:]
LastN(seq, n) == IF Len(seq) <= n THEN seq ELSE SubSeq(seq, Len(seq) - n + 1, Len(seq))

\* sum(bools): the number of True entries
SumTrue(seq) == Cardinality({i \in 1..Len(seq) : seq[i]})

recent_loss_rate(loss) == Rat(SumTrue(LastN(loss, adaptive_window)), adaptive_window)

\* a slip: the loss rate of the whole list, not of its last adaptive_window entries
adjust_error_rate_whole_list(loss, rate) ==
    IF Len(loss) >= adaptive_window
    THEN IF RatLess(HighLoss, Rat(SumTrue(loss), Len(loss)))
         THEN RatMax(min_error_rate, RatMul(rate, DecayStep))
         ELSE IF RatLess(Rat(SumTrue(loss), Len(loss)), LowLoss)
              THEN RatMin(max_error_rate, RatMul(rate, GrowStep))
              ELSE rate
    ELSE rate

\* a slip: the thresholds are inclusive (>= 0.3, <= 0.1)
adjust_error_rate_inclusive(loss, rate) ==
    IF Len(loss) >= adaptive_window
    THEN IF ~RatLess(recent_loss_rate(loss), HighLoss)
         THEN RatMax(min_error_rate, RatMul(rate, DecayStep))
         ELSE IF ~RatLess(LowLoss, recent_loss_rate(loss))
              THEN RatMin(max_error_rate, RatMul(rate, GrowStep))
              ELSE rate
    ELSE rate

adjust_error_rate(loss, rate) ==
    IF Len(loss) >= adaptive_window
    THEN IF RatLess(HighLoss, recent_loss_rate(loss))
         THEN RatMax(min_error_rate, RatMul(rate, DecayStep))
         ELSE IF RatLess(recent_loss_rate(loss), LowLoss)
              THEN RatMin(max_error_rate, RatMul(rate, GrowStep))
              ELSE rate
    ELSE rate

(***************************************************************************)
(* Python values and bytes.  A value is <<tag, content>>:                  *)
(*   <<"null", <<>>>>        None                                          *)
(*   <<"bool", <<b>>>>       False (b = 0), True (b = 1)                   *)
(*   <<"num", text>>         a number, by the characters of its literal    *)
(*   <<"str", cps>>          a str, by its code points                     *)
(*   <<"arr", <<v1, ...>>>>  a list                                        *)
(*   <<"tup", <<v1, ...>>>>  a tuple                                       *)
(*   <<"obj", <<<<k1, v1>>, ...>>>>  a dict, keys in insertion order       *)
(*   <<"set", <<>>>>         a value json cannot serialise (a set)         *)
(* bytes are sequences of 0..255; a str is a sequence of code points.      *)
(***************************************************************************)
PyNone == <<"null", <<>>>>

PyStr(cps) == <<"str", cps>>

PyNum(text) == <<"num", text>>

PyObj(pairs) == <<"obj", pairs>>

Unserializable == <<"set", <<>>>>

RECURSIVE Concat(_)
Concat(seqs) == IF seqs = <<>> THEN <<>> ELSE Head(seqs) \o Concat(Tail(seqs))

HexDigit(n) == IF n < 10 THEN 48 + n ELSE 87 + n

(***************************************************************************)
(* json.dumps(value), with its defaults: ensure_ascii, separators ", " and *)
(* ": ".  The result is [exc, text]: exc is "TypeError" when a value is    *)
(* not serialisable.                                                       *)
(***************************************************************************)
\* one character of a str, as json.dumps writes it inside the quotes
DumpChar(c) ==
    CASE c = 34 -> <<92, 34>>
      [] c = 92 -> <<92, 92>>
      [] c = 10 -> <<92, 110>>
      [] c = 13 -> <<92, 114>>
      [] c = 9  -> <<92, 116>>
      [] c = 8  -> <<92, 98>>
      [] c = 12 -> <<92, 102>>
      [] c >= 32 /\ c <= 126 /\ c # 34 /\ c # 92 -> <<c>>
      [] OTHER -> <<92, 117, HexDigit((c \div 4096) % 16), HexDigit((c \div 256) % 16),
                    HexDigit((c \div 16) % 16), HexDigit(c % 16)>>

DumpStr(cps) == <<34>> \o Concat([i \in 1..Len(cps) |-> DumpChar(cps[i])]) \o <<34>>

RECURSIVE Dumps(_)
Dumps(v) ==
    CASE v[1] = "null" -> [exc |-> "none", text |-> <<110, 117, 108, 108>>]
      [] v[1] = "bool" -> [exc |-> "none",
                           text |-> IF v[2][1] = 1 THEN <<116, 114, 117, 101>>
                                    ELSE <<102, 97, 108, 115, 101>>]
      [] v[1] = "num" -> [exc |-> "none", text |-> v[2]]
      [] v[1] = "str" -> [exc |-> "none", text |-> DumpStr(v[2])]
      [] v[1] \in {"arr", "tup"} ->
            LET parts == [i \in 1..Len(v[2]) |-> Dumps(v[2][i])]
                sep(i) == IF i = 1 THEN <<>> ELSE <<44, 32>>
            IN IF \E i \in 1..Len(parts) : parts[i].exc # "none"
               THEN [exc |-> "TypeError", text |-> <<>>]
               ELSE [exc |-> "none",
                     text |-> <<91>> \o Concat([i \in 1..Len(parts) |-> sep(i) \o parts[i].text])
                              \o <<93>>]
      [] v[1] = "obj" ->
            LET parts == [i \in 1..Len(v[2]) |-> Dumps(v[2][i][2])]
                sep(i) == IF i = 1 THEN <<>> ELSE <<44, 32>>
            IN IF \E i \in 1..Len(parts) : parts[i].exc # "none"
               THEN [exc |-> "TypeError", text |-> <<>>]
               ELSE [exc |-> "none",
                     text |-> <<123>> \o Concat([i \in 1..Len(parts) |->
                                  sep(i) \o DumpStr(v[2][i][1]) \o <<58, 32>> \o parts[i].text])
                              \o <<125>>]
      [] OTHER -> [exc |-> "TypeError", text |-> <<>>]

(***************************************************************************)
(* Packet.encode: json.dumps({"data": self.data}).encode().  The text is   *)
(* ASCII, so its UTF-8 bytes are its code points.                          *)
(***************************************************************************)
encode(data) ==
    LET d == Dumps(PyObj(<< <<(<<100, 97, 116, 97>>), data>> >>))
    IN [exc |-> d.exc, bytes |-> d.text]

(***************************************************************************)
(* json.loads(text): the scanner of the json module (strict mode).  Every  *)
(* parser returns [ok, val, end]: end is the index after what it read.     *)
(***************************************************************************)
ParseFail == [ok |-> FALSE, val |-> PyNone, end |-> 0]

ParseOk(v, e) == [ok |-> TRUE, val |-> v, end |-> e]

\* the character at index i, or -1 past the end
Ch(s, i) == IF i >= 1 /\ i <= Len(s) THEN s[i] ELSE -1

IsWs(c) == c \in {32, 9, 10, 13}

IsDigit(c) == c >= 48 /\ c <= 57

IsHex(c) == IsDigit(c) \/ (c >= 97 /\ c <= 102) \/ (c >= 65 /\ c <= 70)

HexVal(c) == IF IsDigit(c) THEN c - 48 ELSE IF c >= 97 THEN c - 87 ELSE c - 55

\* whether text t stands in s at index i
StartsAt(s, i, t) == i + Len(t) - 1 <= Len(s) /\ SubSeq(s, i, i + Len(t) - 1) = t

RECURSIVE SkipWs(_, _)
SkipWs(s, i) == IF IsWs(Ch(s, i)) THEN SkipWs(s, i + 1) ELSE i

RECURSIVE SkipDigits(_, _)
SkipDigits(s, i) == IF IsDigit(Ch(s, i)) THEN SkipDigits(s, i + 1) ELSE i

\* the characters a backslash may precede, and what each stands for
Unescape(c) ==
    CASE c = 34 -> 34
      [] c = 92 -> 92
      [] c = 47 -> 47
      [] c = 98 -> 8
      [] c = 102 -> 12
      [] c = 110 -> 10
      [] c = 114 -> 13
      [] c = 116 -> 9
      [] OTHER -> -1

\* scanstring: s[i] is the first character after the opening quote
RECURSIVE ScanString(_, _, _)
ScanString(s, i, acc) ==
    LET c == Ch(s, i) IN
    CASE c = -1 -> ParseFail
      [] c = 34 -> ParseOk(PyStr(acc), i + 1)
      [] c = 92 ->
            LET e == Ch(s, i + 1) IN
            IF e = 117
            THEN IF \A k \in 2..5 : IsHex(Ch(s, i + k))
                 THEN ScanString(s, i + 6,
                         Append(acc, HexVal(s[i + 2]) * 4096 + HexVal(s[i + 3]) * 256
                                     + HexVal(s[i + 4]) * 16 + HexVal(s[i + 5])))
                 ELSE ParseFail
            ELSE IF e # -1 /\ Unescape(e) # -1
                 THEN ScanString(s, i + 2, Append(acc, Unescape(e)))
                 ELSE ParseFail
      [] c >= 0 /\ c < 32 -> ParseFail
      [] OTHER -> ScanString(s, i + 1, Append(acc, c))

\* NUMBER_RE: (-?(?:0|[1-9]\d*))(\.\d+)?([eE][-+]?\d+)? matched at index i
ScanNumber(s, i) ==
    LET i0 == IF Ch(s, i) = 45 THEN i + 1 ELSE i
        i1 == IF Ch(s, i0) = 48 THEN i0 + 1
              ELSE IF IsDigit(Ch(s, i0)) THEN SkipDigits(s, i0) ELSE 0
        i2 == IF Ch(s, i1) = 46 /\ IsDigit(Ch(s, i1 + 1)) THEN SkipDigits(s, i1 + 1) ELSE i1
        e0 == IF Ch(s, i2 + 1) \in {43, 45} THEN i2 + 2 ELSE i2 + 1
        i3 == IF Ch(s, i2) \in {101, 69} /\ IsDigit(Ch(s, e0)) THEN SkipDigits(s, e0) ELSE i2
    IN IF i1 = 0 THEN ParseFail ELSE ParseOk(PyNum(SubSeq(s, i, i3 - 1)), i3)

\* a dict's item assignment: a repeated key keeps its place and takes the new value
DictPut(pairs, k, v) ==
    IF \E n \in 1..Len(pairs) : pairs[n][1] = k
    THEN [n \in 1..Len(pairs) |-> IF pairs[n][1] = k THEN <<k, v>> ELSE pairs[n]]
    ELSE Append(pairs, <<k, v>>)

RECURSIVE ScanOnce(_, _), ObjectItems(_, _, _), ArrayItems(_, _, _)
\* JSONObject's loop: s[i] is the opening quote of a key
ObjectItems(s, i, pairs) ==
    LET key == ScanString(s, i + 1, <<>>)
        colon == SkipWs(s, key.end)
        val == ScanOnce(s, SkipWs(s, colon + 1))
        next == SkipWs(s, val.end)
        more == SkipWs(s, next + 1)
    IN IF ~key.ok \/ Ch(s, colon) # 58 THEN ParseFail
       ELSE IF ~val.ok THEN ParseFail
       ELSE IF Ch(s, next) = 125
            THEN ParseOk(PyObj(DictPut(pairs, key.val[2], val.val)), next + 1)
       ELSE IF Ch(s, next) = 44 /\ Ch(s, more) = 34
            THEN ObjectItems(s, more, DictPut(pairs, key.val[2], val.val))
       ELSE ParseFail

\* JSONArray's loop: s[i] is where a value starts
ArrayItems(s, i, vals) ==
    LET val == ScanOnce(s, i)
        next == SkipWs(s, val.end)
    IN IF ~val.ok THEN ParseFail
       ELSE IF Ch(s, next) = 93 THEN ParseOk(<<"arr", Append(vals, val.val)>>, next + 1)
       ELSE IF Ch(s, next) = 44 THEN ArrayItems(s, SkipWs(s, next + 1), Append(vals, val.val))
       ELSE ParseFail

\* scan_once: one value at index i
ScanOnce(s, i) ==
    LET c == Ch(s, i) IN
    CASE c = 34 -> ScanString(s, i + 1, <<>>)
      [] c = 123 ->
            LET j == SkipWs(s, i + 1) IN
            IF Ch(s, j) = 125 THEN ParseOk(PyObj(<<>>), j + 1)
            ELSE IF Ch(s, j) = 34 THEN ObjectItems(s, j, <<>>)
            ELSE ParseFail
      [] c = 91 ->
            LET j == SkipWs(s, i + 1) IN
            IF Ch(s, j) = 93 THEN ParseOk(<<"arr", <<>>>>, j + 1)
            ELSE ArrayItems(s, j, <<>>)
      [] c = 110 /\ StartsAt(s, i, <<110, 117, 108, 108>>) -> ParseOk(PyNone, i + 4)
      [] c = 116 /\ StartsAt(s, i, <<116, 114, 117, 101>>) -> ParseOk(<<"bool", <<1>>>>, i + 4)
      [] c = 102 /\ StartsAt(s, i, <<102, 97, 108, 115, 101>>) ->
            ParseOk(<<"bool", <<0>>>>, i + 5)
      [] ScanNumber(s, i).ok -> ScanNumber(s, i)
      [] c = 78 /\ StartsAt(s, i, <<78, 97, 78>>) -> ParseOk(PyNum(<<78, 97, 78>>), i + 3)
      [] c = 73 /\ StartsAt(s, i, <<73, 110, 102, 105, 110, 105, 116, 121>>) ->
            ParseOk(PyNum(SubSeq(s, i, i + 7)), i + 8)
      [] c = 45 /\ StartsAt(s, i, <<45, 73, 110, 102, 105, 110, 105, 116, 121>>) ->
            ParseOk(PyNum(SubSeq(s, i, i + 8)), i + 9)
      [] OTHER -> ParseFail

\* json.loads: one value, with whitespace around it and nothing else
loads(s) ==
    LET r == ScanOnce(s, SkipWs(s, 1))
    IN IF r.ok /\ SkipWs(s, r.end) = Len(s) + 1 THEN r ELSE ParseFail

(***************************************************************************)
(* Packet.decode: json.loads(encoded_data.decode())["data"], or None when  *)
(* anything raises.  bytes.decode() raises on a byte that is not valid     *)
(* UTF-8; decode's input is encode's ASCII output with at most one byte    *)
(* changed, where a byte of 128 or more is never part of a valid sequence. *)
(***************************************************************************)
DictGet(pairs, k) ==
    IF \E n \in 1..Len(pairs) : pairs[n][1] = k
    THEN (LET n == CHOOSE m \in 1..Len(pairs) : pairs[m][1] = k IN pairs[n][2])
    ELSE PyNone

decode(encoded_data) ==
    IF \E i \in 1..Len(encoded_data) : encoded_data[i] >= 128 THEN PyNone
    ELSE LET data == loads(encoded_data)
         IN IF data.ok /\ data.val[1] = "obj"
            THEN DictGet(data.val[2], <<100, 97, 116, 97>>)
            ELSE PyNone

(***************************************************************************)
(* corrupt_data.  The three random draws are inputs: draw is random()      *)
(* as the rational it returned, pos is randint(0, len(data) - 1) + 1 and   *)
(* mask is randint(1, 255).                                                *)
(***************************************************************************)
RECURSIVE Xor(_, _)
Xor(a, b) == IF a = 0 /\ b = 0 THEN 0
             ELSE ((a + b) % 2) + 2 * Xor(a \div 2, b \div 2)

\* a slip: the byte is replaced by the random value, not XORed with it
corrupt_data_overwrites(data, rate, draw, pos, mask) ==
    IF data = <<>> THEN data
    ELSE IF RatLess(draw, rate)
         THEN [data EXCEPT ![pos] = mask]
         ELSE data

corrupt_data(data, rate, draw, pos, mask) ==
    IF data = <<>> THEN data
    ELSE IF RatLess(draw, rate)
         THEN [data EXCEPT ![pos] = Xor(data[pos], mask)]
         ELSE data

(***************************************************************************)
(* The packets handed to transmit.  A packet is <<class, data>>: a Packet  *)
(* of packet.py with its payload, or an object of another class whose      *)
(* encode() returns b"" (the case transmit's "if not encoded_data" is      *)
(* written for; Packet.encode itself never returns empty bytes).           *)
(***************************************************************************)
Packet(data) == <<"Packet", data>>

BlankPacket == <<"Blank", PyNone>>

\* packet.encode(), as transmit calls it
PacketEncode(packet) ==
    IF packet[1] = "Blank" THEN [exc |-> "none", bytes |-> <<>>] ELSE encode(packet[2])

Packets == {Packet(PyStr(<<97>>)), Packet(Unserializable), BlankPacket}

\* the packets of the codec's own specification: payloads "a", None and the
\* tuple (1,) as well
CodecPackets == Packets \cup {Packet(PyNone), Packet(<<"tup", <<PyNum(<<49>>)>>>>)}

\* packet.encode() of each packet of the model, computed once
Encoded == [packet \in CodecPackets |-> PacketEncode(packet)]

\* error_rate arguments of the constructor: inside, at the edge of and outside
\* [min_error_rate, max_error_rate]
InitRates == {Rat(3, 50), Rat(1, 2), Rat(9, 10)}

\* error_rate arguments for the codec's own specification: 1.0 as well
CodecRates == {Rat(1, 2), Rat(1, 1)}

\* values random.random() returns: its least, and one close to 1
Draws == {Rat(0, 1), Rat(999, 1000)}

\* values of random.uniform(0.1, 0.5), in tenths of a time unit
Delays == {1, 3, 5}

\* the transmit processes of a run whose processes are told apart
Procs == 1..NumProcs

\* where save_statistics raises: nowhere, or opening the CSV file, after the JSON
\* file is written (raising earlier leaves the same fields and writes nothing)
SaveFaults == {"none", "csv"}

\* simulated times at which the scheduler resumes a process (env.now)
ResumeTimes == {1, 5}

(***************************************************************************)
(* transmit's "decoded_data is None", for every position and mask          *)
(* corrupt_data can draw: LossTable[packet, hit] is the set of outcomes    *)
(* when the draw is below the error rate (hit) and when it is not.         *)
(***************************************************************************)
DecodedIsNone(packet, rate, draw, pos, mask) ==
    decode(corrupt_data(Encoded[packet].bytes, rate, draw, pos, mask)) = PyNone

LossTable ==
    [packet \in Packets, hit \in BOOLEAN |->
        LET encoded_data == Encoded[packet].bytes
        IN {DecodedIsNone(packet, Rat(1, 2), IF hit THEN Rat(0, 1) ELSE Rat(1, 1), pos, mask) :
               pos \in 1..Len(encoded_data), mask \in 1..255}]

LossOutcomes(packet, rate, draw) == LossTable[packet, RatLess(draw, rate)]

(***************************************************************************)
(* The simulator's state.                                                  *)
(***************************************************************************)
VARIABLES
    error_rate,                 \* self.error_rate
    latency_data,               \* self.latency_data
    packet_loss,                \* self.packet_loss
    successful_transmissions,   \* self.successful_transmissions
    total_transmissions,        \* self.total_transmissions
    json_writes,                \* times simulation_stats.json was written
    csv_rows,                   \* rows appended to simulation_stats.csv
    pending,                    \* transmit processes suspended in their delay
    scheduled,                  \* env.process calls so far
    faults,                     \* attempts so far in which something raises
    crashed,                    \* an exception left a process: env.run() raised
    clock,                      \* env.now, in tenths of a time unit
    queue,                      \* the transmit processes told apart, each with its position
    serial,                     \* the fields, had the attempts run one after the other
    wire                        \* one packet on its way through the codec

vars == <<error_rate, latency_data, packet_loss, successful_transmissions,
          total_transmissions, json_writes, csv_rows, pending, scheduled, faults, crashed,
          clock, queue, serial, wire>>

\* the fields of self that transmit and its callees read and write
Sim == [error_rate |-> error_rate, latency_data |-> latency_data,
        packet_loss |-> packet_loss,
        successful_transmissions |-> successful_transmissions,
        total_transmissions |-> total_transmissions,
        json_writes |-> json_writes, csv_rows |-> csv_rows]

\* a process not yet handed to the scheduler
NewProc == [pc |-> "new", started |-> 0, at |-> 0, entry |-> 0, samples |-> 0,
            rate |-> Rat(0, 1), fault |-> "none"]

\* no packet on its way
NoWire == [stage |-> "idle", packet |-> BlankPacket, sent |-> <<>>, hit |-> FALSE,
           received |-> <<>>, decoded |-> PyNone, lost |-> FALSE]

\* the state after NetworkSimulator(env, error_rate), for an argument of rates
Constructed(rates) ==
    /\ error_rate \in rates
    /\ latency_data = <<>>
    /\ packet_loss = <<>>
    /\ successful_transmissions = 0
    /\ total_transmissions = 0
    /\ json_writes = 0
    /\ csv_rows = 0
    /\ pending = 0
    /\ scheduled = 0
    /\ faults = 0
    /\ crashed = FALSE
    /\ clock = 0
    /\ queue = [p \in Procs |-> NewProc]
    /\ serial = Sim
    /\ wire = NoWire

Init == Constructed(InitRates)

(***************************************************************************)
(* get_statistics: the dict it returns, as a record, or [raises |-> ...]   *)
(* when a division raises.                                                 *)
(***************************************************************************)
RECURSIVE SumSeq(_)
SumSeq(seq) == IF seq = <<>> THEN 0 ELSE Head(seq) + SumSeq(Tail(seq))

NoData == [error |-> "No data available"]

get_statistics(sim) ==
    IF sim.latency_data = <<>> THEN NoData
    ELSE IF sim.packet_loss = <<>> THEN [raises |-> "ZeroDivisionError"]
    ELSE [total_transmissions |-> sim.total_transmissions,
          successful_transmissions |-> sim.successful_transmissions,
          average_latency |-> Rat(SumSeq(sim.latency_data), Len(sim.latency_data)),
          loss_rate |-> Rat(SumTrue(sim.packet_loss), Len(sim.packet_loss)),
          current_error_rate |-> sim.error_rate]

(***************************************************************************)
(* save_statistics: the JSON file is written, then a row is appended to    *)
(* the CSV file; either open() may raise.                                  *)
(***************************************************************************)
save_statistics(sim, fault) ==
    CASE fault = "json" -> [sim |-> sim, exc |-> "OSError"]
      [] fault = "csv" -> [sim |-> [sim EXCEPT !.json_writes = @ + 1], exc |-> "OSError"]
      [] OTHER -> [sim |-> [sim EXCEPT !.json_writes = @ + 1, !.csv_rows = @ + 1],
                   exc |-> "none"]

(***************************************************************************)
(* transmit, after its delay: the try block, the except clause, and the    *)
(* two together.  now is env.now when the process is resumed.              *)
(***************************************************************************)
\* a slip: successful_transmissions is incremented whatever decode returned
TryBlock_always_success(sim, packet, now, lost, fault) ==
    LET start_time == now
        encoded_data == Encoded[packet]
        latency == now - start_time
        recorded == [sim EXCEPT !.latency_data = Append(@, latency),
                                !.packet_loss = Append(@, lost),
                                !.total_transmissions = @ + 1,
                                !.successful_transmissions = @ + 1]
        adjusted == [recorded EXCEPT
                        !.error_rate = adjust_error_rate(recorded.packet_loss, @)]
    IN IF encoded_data.exc # "none" THEN [sim |-> sim, exc |-> encoded_data.exc]
       ELSE IF encoded_data.bytes = <<>> THEN [sim |-> sim, exc |-> "ValueError"]
       ELSE save_statistics(adjusted, fault)

\* a slip: start_time is read before the yield, when the process is created
Recorded_start_before_delay(sim, started, now, lost) ==
    LET start_time == started
        latency == now - start_time
    IN [sim EXCEPT !.latency_data = Append(@, latency),
                   !.packet_loss = Append(@, lost),
                   !.total_transmissions = @ + 1,
                   !.successful_transmissions = IF lost THEN @ ELSE @ + 1]

\* lines 58 and 68 to 74: the latency and the outcome are recorded; started is
\* env.now when the process was created, now is env.now when it is resumed
Recorded(sim, started, now, lost) ==
    LET start_time == now
        latency == now - start_time
    IN [sim EXCEPT !.latency_data = Append(@, latency),
                   !.packet_loss = Append(@, lost),
                   !.total_transmissions = @ + 1,
                   !.successful_transmissions = IF lost THEN @ ELSE @ + 1]

\* line 76: self.adjust_error_rate()
Adjusted(sim) == [sim EXCEPT !.error_rate = adjust_error_rate(sim.packet_loss, @)]

TryBlock(sim, packet, now, lost, fault) ==
    LET encoded_data == Encoded[packet]
    IN IF encoded_data.exc # "none" THEN [sim |-> sim, exc |-> encoded_data.exc]
       ELSE IF encoded_data.bytes = <<>> THEN [sim |-> sim, exc |-> "ValueError"]
       \* Recorded does not read the time the process was created at
       ELSE save_statistics(Adjusted(Recorded(sim, 0, now, lost)), fault)

\* a slip: the clause names the exceptions of encoding only
Catches_encoding_only(exc) == exc \in {"TypeError", "ValueError"}

\* "except Exception": every exception raised in the try block is one
Catches(exc) == exc \in {"TypeError", "ValueError", "OSError"}

\* a slip: the except clause also calls the controller
ExceptBlock_adjusts(sim) ==
    [sim EXCEPT !.packet_loss = Append(@, TRUE), !.total_transmissions = @ + 1,
                !.error_rate = adjust_error_rate(Append(sim.packet_loss, TRUE), @)]

\* a slip: the except clause turns the last entry into a loss instead of
\* appending one
ExceptBlock_overwrites(sim) ==
    [sim EXCEPT !.packet_loss = IF @ = <<>> THEN <<TRUE>> ELSE [@ EXCEPT ![Len(@)] = TRUE],
                !.total_transmissions = @ + 1]

\* a slip: the except clause records a latency sample as well
ExceptBlock_with_latency(sim) ==
    [sim EXCEPT !.latency_data = Append(@, 0), !.packet_loss = Append(@, TRUE),
                !.total_transmissions = @ + 1]

\* a slip: the except clause records the loss and forgets to count the attempt
ExceptBlock_uncounted(sim) ==
    [sim EXCEPT !.packet_loss = Append(@, TRUE)]

ExceptBlock(sim) ==
    [sim EXCEPT !.packet_loss = Append(@, TRUE), !.total_transmissions = @ + 1]

\* [sim, exc]: the fields when transmit ends, and the exception that leaves it
TransmitResult(sim, packet, now, lost, fault) ==
    LET try == TryBlock(sim, packet, now, lost, fault)
    IN IF try.exc = "none" THEN try
       ELSE IF Catches(try.exc) THEN [sim |-> ExceptBlock(try.sim), exc |-> "none"]
       ELSE try

\* whether packet.encode() raises or returns nothing
EncodeFails(packet) == Encoded[packet].exc # "none" \/ Encoded[packet].bytes = <<>>

\* whether something raises in the attempt
Raises(packet, fault) == EncodeFails(packet) \/ fault # "none"

(***************************************************************************)
(* env.process(simulator.transmit(packet)): the process runs to its yield  *)
(* and waits for its delay.  Its packet takes no part before it resumes,   *)
(* so the model draws it when it does and pending only counts.             *)
(***************************************************************************)
Schedule(limit) ==
    /\ ~crashed
    /\ scheduled < limit
    /\ pending < MaxPending
    /\ pending' = pending + 1
    /\ scheduled' = scheduled + 1
    /\ UNCHANGED <<error_rate, latency_data, packet_loss, successful_transmissions,
                   total_transmissions, json_writes, csv_rows, faults, crashed,
                   clock, queue, serial, wire>>

process == Schedule(MaxAttempts)

(***************************************************************************)
(* The scheduler resumes a transmit process whose delay is over (any of    *)
(* the suspended ones: the delays are random); it runs to its end.         *)
(***************************************************************************)
transmit(packet, now, draw, lost, fault) ==
    /\ ~crashed
    /\ pending > 0
    /\ Raises(packet, fault) => faults < MaxFaults
    \* decode and save_statistics are reached only with something encoded
    /\ IF EncodeFails(packet) THEN lost /\ fault = "none"
       ELSE lost \in LossOutcomes(packet, error_rate, draw)
    /\ LET r == TransmitResult(Sim, packet, now, lost, fault)
       IN /\ error_rate' = r.sim.error_rate
          /\ latency_data' = r.sim.latency_data
          /\ packet_loss' = r.sim.packet_loss
          /\ successful_transmissions' = r.sim.successful_transmissions
          /\ total_transmissions' = r.sim.total_transmissions
          /\ json_writes' = r.sim.json_writes
          /\ csv_rows' = r.sim.csv_rows
          /\ crashed' = (r.exc # "none")
    /\ serial' = TransmitResult(serial, packet, now, lost, fault).sim
    /\ pending' = pending - 1
    /\ faults' = IF Raises(packet, fault) THEN faults + 1 ELSE faults
    /\ UNCHANGED <<scheduled, clock, queue, wire>>

Next ==
    \/ process
    \/ \E packet \in Packets, now \in ResumeTimes, draw \in Draws, lost \in BOOLEAN,
          fault \in SaveFaults : transmit(packet, now, draw, lost, fault)

Spec == Init /\ [][Next]_vars

(***************************************************************************)
(* A run in which the processes are told apart and the clock is kept: each *)
(* transmit process is created with its delay drawn, env.run() resumes the *)
(* process whose timeout is the earliest (the first created, among equal   *)
(* ones) and the process runs until it yields or ends.  The part of        *)
(* transmit after the delay is taken in two steps, lines 58 to 74 and      *)
(* lines 76 to 82, with SuspensionPoints saying where the generator        *)
(* yields: the scheduler resumes no process while another is between two   *)
(* steps and not at a yield.                                               *)
(***************************************************************************)
\* a slip: a second yield, between recording the outcome and the controller
SuspensionPoints_after_record == {"delay", "recorded"}

\* the positions at which transmit yields: line 56 only
SuspensionPoints == {"delay"}

\* whether process q holds the processor: it is between two steps, not at a yield
Running(q) == queue[q].pc \notin {"new", "done"} /\ queue[q].pc \notin SuspensionPoints

\* whether the timeout of p is the next event of the queue
Earliest(p) ==
    \A q \in Procs : queue[q].pc = "delay"
        => \/ queue[p].at < queue[q].at
           \/ queue[p].at = queue[q].at /\ p <= q

\* env.process(simulator.transmit(packet)), for the processes in turn, all of
\* them before env.run() as in test.py; the process runs to its yield when
\* env.run() begins, before any timeout fires
Start(p, delay) ==
    /\ ~crashed
    /\ queue[p].pc = "new"
    /\ p = scheduled + 1
    /\ \A q \in Procs : queue[q].pc \in {"new", "delay"}
    /\ queue' = [queue EXCEPT ![p].pc = "delay", ![p].started = clock,
                              ![p].at = clock + delay]
    /\ pending' = pending + 1
    /\ scheduled' = scheduled + 1
    /\ UNCHANGED <<error_rate, latency_data, packet_loss, successful_transmissions,
                   total_transmissions, json_writes, csv_rows, faults, crashed,
                   clock, serial, wire>>

\* the fields of sim, assigned to the variables
Assign(sim) ==
    /\ error_rate' = sim.error_rate
    /\ latency_data' = sim.latency_data
    /\ packet_loss' = sim.packet_loss
    /\ successful_transmissions' = sim.successful_transmissions
    /\ total_transmissions' = sim.total_transmissions
    /\ json_writes' = sim.json_writes
    /\ csv_rows' = sim.csv_rows

\* the timeout of p fires: lines 58 to 74, or the except clause when encoding
\* fails.  fault is what save_statistics will do in this attempt.
Resume(p, packet, draw, lost, fault) ==
    /\ ~crashed
    /\ queue[p].pc = "delay"
    /\ Earliest(p)
    /\ \A q \in Procs : ~Running(q)
    /\ IF EncodeFails(packet) THEN lost /\ fault = "none"
       ELSE lost \in LossOutcomes(packet, error_rate, draw)
    /\ clock' = queue[p].at
    /\ LET exc == IF Encoded[packet].exc # "none" THEN Encoded[packet].exc ELSE "ValueError"
           sim == IF ~EncodeFails(packet)
                  THEN Recorded(Sim, queue[p].started, clock', lost)
                  ELSE IF Catches(exc) THEN ExceptBlock(Sim) ELSE Sim
       IN /\ Assign(sim)
          /\ crashed' = (EncodeFails(packet) /\ ~Catches(exc))
          /\ queue' = [queue EXCEPT
                          ![p].pc = IF EncodeFails(packet) THEN "done" ELSE "recorded",
                          ![p].entry = Len(sim.packet_loss),
                          ![p].samples = Len(sim.latency_data),
                          ![p].rate = sim.error_rate,
                          ![p].fault = fault]
    /\ serial' = TransmitResult(serial, packet, clock', lost, fault).sim
    /\ pending' = pending - 1
    /\ faults' = IF Raises(packet, fault) THEN faults + 1 ELSE faults
    /\ UNCHANGED <<scheduled, wire>>

\* lines 76 to 82: the controller, save_statistics, and the except clause when
\* that raises
Finish(p) ==
    /\ ~crashed
    /\ queue[p].pc = "recorded"
    /\ \A q \in Procs \ {p} : ~Running(q)
    /\ LET try == save_statistics(Adjusted(Sim), queue[p].fault)
           sim == IF try.exc # "none" /\ Catches(try.exc) THEN ExceptBlock(try.sim)
                  ELSE try.sim
       IN /\ Assign(sim)
          /\ crashed' = (try.exc # "none" /\ ~Catches(try.exc))
    /\ queue' = [queue EXCEPT ![p].pc = "done"]
    /\ UNCHANGED <<pending, scheduled, faults, clock, serial, wire>>

\* env.run(): one step of a process
RunStep ==
    \/ \E p \in Procs, packet \in Packets, draw \in Draws, lost \in BOOLEAN,
          fault \in SaveFaults : Resume(p, packet, draw, lost, fault)
    \/ \E p \in Procs : Finish(p)

RunNext ==
    \/ \E p \in Procs, delay \in Delays : Start(p, delay)
    \/ RunStep

\* test_error_handling constructs its simulator with error_rate = 0.5
RunInit == Constructed({Rat(1, 2)})

Run == RunInit /\ [][RunNext]_vars

\* env.run() goes on until no event is left
FairRun == Run /\ WF_vars(RunStep)

(***************************************************************************)
(* The claims.                                                             *)
(***************************************************************************)
RatLeq(x, y) == ~RatLess(y, x)

\* the number of False entries of a list of booleans
CountFalse(seq) == Cardinality({i \in 1..Len(seq) : ~seq[i]})

\* attempts that have run to completion
Completed == scheduled - pending

\* C1 (as claimed): in every reachable state, from construction on,
\* min_error_rate <= error_rate <= max_error_rate.  The constructor stores its
\* argument as it is, so this fails in the first state for an argument of 0.9.
C1_RateWithinBounds ==
    RatLeq(min_error_rate, error_rate) /\ RatLeq(error_rate, max_error_rate)

\* C2 (as claimed): after N attempts have run to completion, whatever their
\* outcome, total_transmissions = N and successful_transmissions + the number
\* of True entries of packet_loss = N.  An attempt whose save_statistics raises
\* is counted twice.
C2_CountedOnce ==
    /\ total_transmissions = Completed
    /\ successful_transmissions + SumTrue(packet_loss) = Completed

\* C3 (as claimed): between attempts,
\* len(latency_data) = len(packet_loss) = total_transmissions.
C3_ParallelHistories ==
    /\ Len(latency_data) = Len(packet_loss)
    /\ Len(packet_loss) = total_transmissions

\* C3 (amended): between attempts len(packet_loss) = total_transmissions and
\* len(latency_data) <= len(packet_loss); the three are equal as long as no
\* attempt has taken the exception path.
C3_LossHistoryCounts ==
    /\ Len(packet_loss) = total_transmissions
    /\ Len(latency_data) <= Len(packet_loss)
    /\ faults = 0 => Len(latency_data) = Len(packet_loss)

\* C3's case: attempts were recorded, one of them through the except clause
C3_Witness ==
    /\ faults > 0
    /\ Len(latency_data) > 0
    /\ Len(latency_data) < Len(packet_loss)

\* C4: between attempts, successful_transmissions is the number of False
\* entries of packet_loss, also after attempts that end in the except clause.
C4_SuccessesAreFalseEntries ==
    successful_transmissions = CountFalse(packet_loss)

\* C4's case: successes and losses were recorded and an attempt has ended in the
\* except clause
C4_Witness ==
    /\ faults > 0
    /\ successful_transmissions > 0
    /\ SumTrue(packet_loss) > faults

\* equality of two rationals, by cross-multiplication
RatEq(x, y) == x[1] * y[2] = y[1] * x[2]

\* a step of transmit for this packet and this outcome of save_statistics
TransmitStep(packet, lost, fault) ==
    \E now \in ResumeTimes, draw \in Draws : transmit(packet, now, draw, lost, fault)

\* the True entries among the last adaptive_window entries of a list that has
\* at least that many
WindowLosses(loss) ==
    Cardinality({i \in 1..adaptive_window : loss[Len(loss) - adaptive_window + i]})

\* the rate C5 states for a call of adjust_error_rate with rate r, when
\* packet_loss is the list loss
C5_Stated(loss, r) ==
    IF Len(loss) < adaptive_window THEN r
    ELSE IF 10 * WindowLosses(loss) > 3 * adaptive_window
         THEN (IF RatLess(<<4 * r[1], 5 * r[2]>>, <<1, 20>>)
               THEN <<1, 20>> ELSE <<4 * r[1], 5 * r[2]>>)
    ELSE IF 10 * WindowLosses(loss) < adaptive_window
         THEN (IF RatLess(<<1, 2>>, <<6 * r[1], 5 * r[2]>>)
               THEN <<1, 2>> ELSE <<6 * r[1], 5 * r[2]>>)
    ELSE r

\* C5: each call of adjust_error_rate with current rate r leaves r when fewer
\* than 10 loss entries exist; otherwise, with f the fraction of True among the
\* last 10 entries, it yields max(min_error_rate, r * 0.8) if f > 0.3,
\* min(max_error_rate, r * 1.2) if f < 0.1, and r otherwise.  transmit calls it
\* once, after appending its outcome, in every attempt that encodes.
C5_ControllerStep ==
    [][\A packet \in Packets, lost \in BOOLEAN, fault \in SaveFaults :
          (~EncodeFails(packet) /\ TransmitStep(packet, lost, fault))
             => RatEq(error_rate', C5_Stated(Append(packet_loss, lost), error_rate))]_vars

\* C5's case: the controller has changed the rate on a list longer than its
\* window (the first entry lies outside it)
C5_Witness ==
    /\ Len(packet_loss) > adaptive_window
    /\ ~packet_loss[Len(packet_loss)]
    /\ error_rate \notin InitRates

\* C6: with exactly 3 or exactly 1 losses among the last 10 entries a call of
\* adjust_error_rate leaves error_rate unchanged; it changes error_rate only
\* with 4 or more losses or with none among the last 10 entries.
C6_ExclusiveThresholds ==
    [][\A packet \in Packets, lost \in BOOLEAN, fault \in SaveFaults :
          (~EncodeFails(packet) /\ TransmitStep(packet, lost, fault))
             => LET loss == Append(packet_loss, lost)
                    k == WindowLosses(loss)
                IN /\ (Len(loss) >= adaptive_window /\ k \in {1, 3})
                         => error_rate' = error_rate
                   /\ error_rate' # error_rate
                         => Len(loss) >= adaptive_window /\ (k >= 4 \/ k = 0)]_vars

\* C6's case: the tenth outcome was just recorded, the ten hold exactly 3 losses
\* and the controller, called on them, left the rate of 0.5
C6_Witness ==
    /\ Len(packet_loss) = adaptive_window
    /\ faults = 0
    /\ SumTrue(packet_loss) = 3
    /\ error_rate = Rat(1, 2)

(***************************************************************************)
(* The window-fill scenario of C7: a simulator constructed with            *)
(* error_rate = 0.5 runs 20 attempts, each recorded by the try block; 4 of *)
(* the first 10 outcomes are losses, none of the next 10 is.               *)
(***************************************************************************)
\* a list of outcomes that is a prefix of such a run
WindowFillShape(loss) ==
    LET n == Len(loss)
        m == IF n < adaptive_window THEN n ELSE adaptive_window
        early == Cardinality({i \in 1..m : loss[i]})
    IN /\ n <= 2 * adaptive_window
       /\ early <= 4
       /\ 4 - early <= adaptive_window - m
       /\ \A i \in (adaptive_window + 1)..n : ~loss[i]

WindowFillInit == Init /\ error_rate = Rat(1, 2)

WindowFillNext ==
    \/ Schedule(2 * adaptive_window)
    \/ \E packet \in Packets, now \in ResumeTimes, draw \in Draws, lost \in BOOLEAN :
          /\ ~EncodeFails(packet)
          /\ transmit(packet, now, draw, lost, "none")
          /\ WindowFillShape(packet_loss')

WindowFill == WindowFillInit /\ [][WindowFillNext]_vars

\* C7 (as claimed): in the scenario the error rate is 0.4 after the first 10
\* outcomes and 0.48 after the 20, the controller being called after every
\* recorded outcome.
C7_WindowFillRates ==
    /\ Len(packet_loss) = adaptive_window => error_rate = Rat(2, 5)
    /\ Len(packet_loss) = 2 * adaptive_window => error_rate = Rat(12, 25)

\* C7 (amended): the error rate is 0.4 after the first 10 outcomes; after the
\* 20 it is 0.48 exactly when the first and the tenth outcome are losses (every
\* window in between then holds 1 to 3 losses and the controller changes
\* nothing before the last outcome).
C7_WindowFillRatesByPlacement ==
    /\ Len(packet_loss) = adaptive_window => error_rate = Rat(2, 5)
    /\ Len(packet_loss) = 2 * adaptive_window
          => (error_rate = Rat(12, 25) <=> packet_loss[1] /\ packet_loss[adaptive_window])

\* C7's case: the 20 outcomes are recorded and the rate is 0.48
C7_Witness ==
    /\ Len(packet_loss) = 2 * adaptive_window
    /\ Len(latency_data) = 2 * adaptive_window
    /\ error_rate = Rat(12, 25)

\* C8: an attempt whose packet.encode() raises or returns empty bytes appends
\* exactly one True entry to packet_loss, increments total_transmissions by
\* exactly one, appends nothing to latency_data, does not increment
\* successful_transmissions, does not call adjust_error_rate (error_rate is
\* unchanged) and does not persist.
C8_EncodeFailureStep ==
    [][\A packet \in Packets, lost \in BOOLEAN, fault \in SaveFaults :
          (EncodeFails(packet) /\ TransmitStep(packet, lost, fault))
             => /\ packet_loss' = Append(packet_loss, TRUE)
                /\ total_transmissions' = total_transmissions + 1
                /\ latency_data' = latency_data
                /\ successful_transmissions' = successful_transmissions
                /\ error_rate' = error_rate
                /\ json_writes' = json_writes
                /\ csv_rows' = csv_rows]_vars

\* C8's case: the tenth entry of packet_loss comes from an attempt whose encode
\* failed, on a window with 4 or more losses: a call of adjust_error_rate would
\* have lowered the rate of 0.5
C8_Witness ==
    /\ Len(packet_loss) = adaptive_window
    /\ Len(latency_data) = adaptive_window - 1
    /\ csv_rows = adaptive_window - 1
    /\ json_writes = csv_rows
    /\ SumTrue(packet_loss) >= 4
    /\ error_rate = Rat(1, 2)

\* C9: a failure raised in an attempt after its delay is contained by transmit:
\* no exception reaches the scheduler (env.run() goes on with the processes
\* still suspended, none of which is dropped), and the failing attempt is
\* recorded as a lost transmission (a True entry ends packet_loss) and counted.
C9_FailuresContained ==
    [][\A packet \in Packets, lost \in BOOLEAN, fault \in SaveFaults :
          (Raises(packet, fault) /\ TransmitStep(packet, lost, fault))
             => /\ ~crashed'
                /\ Len(packet_loss') > Len(packet_loss)
                /\ packet_loss'[Len(packet_loss')]
                /\ total_transmissions' > total_transmissions
                /\ pending' = pending - 1
                /\ scheduled' = scheduled]_vars

\* C9's case: an attempt has failed while another was suspended, and that one
\* has since been run and recorded
C9_Witness ==
    /\ faults > 0
    /\ pending = 0
    /\ Len(packet_loss) > 1
    /\ ~packet_loss[Len(packet_loss)]
    /\ packet_loss[1]
    /\ Len(latency_data) = 1

\* C10 (as claimed): when save_statistics raises in an attempt, latency_data,
\* packet_loss, total_transmissions, successful_transmissions and error_rate
\* end as they would have, had it not raised.  The except clause of transmit
\* catches the exception and records a second outcome for the attempt.
C10_PersistenceFrame ==
    [][\A packet \in Packets, now \in ResumeTimes, draw \in Draws, lost \in BOOLEAN :
          (~EncodeFails(packet) /\ transmit(packet, now, draw, lost, "csv"))
             => LET saved == TransmitResult(Sim, packet, now, lost, "none").sim
                IN /\ latency_data' = saved.latency_data
                   /\ packet_loss' = saved.packet_loss
                   /\ total_transmissions' = saved.total_transmissions
                   /\ successful_transmissions' = saved.successful_transmissions
                   /\ error_rate' = saved.error_rate]_vars

(***************************************************************************)
(* One packet on its way through the codec and the corruption model, as    *)
(* transmit sends it (lines 59 to 70), every draw of corrupt_data being an *)
(* input.  corrupt_data and Packet.decode are applied to whatever encode   *)
(* returned, empty bytes included (transmit itself raises on those).       *)
(***************************************************************************)
\* the values of randint(0, len(data) - 1) + 1; no position is drawn for b""
Positions(data) == IF data = <<>> THEN {1} ELSE 1..Len(data)

\* the values of randint(1, 255)
Masks == 1..255

\* encoded_data = packet.encode()
Send(packet) ==
    /\ wire.stage = "idle"
    /\ wire' = IF Encoded[packet].exc # "none"
               THEN [wire EXCEPT !.stage = "rejected", !.packet = packet]
               ELSE [wire EXCEPT !.stage = "sent", !.packet = packet,
                                 !.sent = Encoded[packet].bytes]
    /\ UNCHANGED <<error_rate, latency_data, packet_loss, successful_transmissions,
                   total_transmissions, json_writes, csv_rows, pending, scheduled,
                   faults, crashed, clock, queue, serial>>

\* corrupted_data = self.corrupt_data(encoded_data)
Corrupt(draw, pos, mask) ==
    /\ wire.stage = "sent"
    /\ wire' = [wire EXCEPT !.stage = "corrupted",
                            !.hit = RatLess(draw, error_rate),
                            !.received = corrupt_data(wire.sent, error_rate, draw, pos, mask)]
    /\ UNCHANGED <<error_rate, latency_data, packet_loss, successful_transmissions,
                   total_transmissions, json_writes, csv_rows, pending, scheduled,
                   faults, crashed, clock, queue, serial>>

\* decoded_data = packet.decode(corrupted_data), and the outcome transmit appends
\* to packet_loss: decoded_data is None
Receive ==
    /\ wire.stage = "corrupted"
    /\ LET decoded_data == decode(wire.received)
       IN wire' = [wire EXCEPT !.stage = "received",
                               !.decoded = decoded_data,
                               !.lost = (decoded_data = PyNone)]
    /\ UNCHANGED <<error_rate, latency_data, packet_loss, successful_transmissions,
                   total_transmissions, json_writes, csv_rows, pending, scheduled,
                   faults, crashed, clock, queue, serial>>

CodecInit == Constructed(CodecRates)

CodecNext ==
    \/ \E packet \in CodecPackets : Send(packet)
    \/ \E draw \in Draws, pos \in Positions(wire.sent), mask \in Masks : Corrupt(draw, pos, mask)
    \/ Receive

Codec == CodecInit /\ [][CodecNext]_vars

(***************************************************************************)
(* Claims about a run whose processes are told apart.                      *)
(***************************************************************************)
\* C11: every transmit process handed to the scheduler is run to its end by
\* env.run(), whatever the delays: a process waiting for its timeout is
\* eventually done, with its outcome an entry of packet_loss, and the run
\* ends with no process left between creation and end.
C11_EveryAttemptCompletes ==
    /\ \A p \in Procs :
          (queue[p].pc = "delay")
             ~> (queue[p].pc = "done" /\ queue[p].entry \in 1..Len(packet_loss))
    /\ <>[](\A p \in Procs : queue[p].pc \in {"new", "done"})

\* C11's case: the processes have all ended, the second created before the
\* first (its delay was shorter), and one of them in the except clause
C11_Witness ==
    /\ \A p \in Procs : queue[p].pc = "done"
    /\ queue[2].entry < queue[1].entry
    /\ faults > 0

\* C16: with several transmit processes waiting, the part of an attempt after
\* its delay is atomic: while a process is between recording its outcome and
\* the call of adjust_error_rate no other process has appended to the histories
\* or changed error_rate (its outcome is the last entry of packet_loss, the
\* window the controller reads ends with it), at most one process is there at
\* a time, and whenever no process is there the fields are those of the
\* attempts run one after the other in the order they were resumed.
C16_AtomicAfterDelay ==
    /\ \A p \in Procs :
          queue[p].pc = "recorded"
             => /\ queue[p].entry = Len(packet_loss)
                /\ queue[p].samples = Len(latency_data)
                /\ queue[p].rate = error_rate
    /\ Cardinality({p \in Procs : queue[p].pc = "recorded"}) <= 1
    /\ (\A p \in Procs : queue[p].pc # "recorded") => Sim = serial

\* C16's case: a process has recorded its outcome and not yet called the
\* controller, while the timeout of another process is due at the same time
\* and an earlier attempt has ended
C16_Witness ==
    \E p, q \in Procs :
        /\ queue[p].pc = "recorded"
        /\ queue[q].pc = "delay"
        /\ queue[q].at = clock
        /\ queue[p].entry > 1

\* C18: every latency sample is 0, whatever delay the process waited and
\* whatever the clock shows when it is resumed, since start_time and the
\* latency are both read from env.now after the delay with no yield between;
\* so average_latency is 0 whenever get_statistics returns the statistics.
C18_LatencyIsZero ==
    /\ \A i \in 1..Len(latency_data) : latency_data[i] = 0
    /\ "average_latency" \in DOMAIN get_statistics(Sim)
          => get_statistics(Sim).average_latency = Rat(0, 1)

\* C18's case: two processes that waited different delays have recorded their
\* latency, and the clock has advanced to the later of the two
C18_Witness ==
    \E p, q \in Procs :
        /\ queue[p].pc = "done" /\ queue[q].pc = "done"
        /\ queue[p].at < queue[q].at
        /\ queue[p].samples = 1 /\ queue[q].samples = 2
        /\ clock = queue[q].at
        /\ "average_latency" \in DOMAIN get_statistics(Sim)

(***************************************************************************)
(* Claims about get_statistics.                                            *)
(***************************************************************************)
\* the keys of the aggregate statistics
StatisticsKeys == {"total_transmissions", "successful_transmissions", "average_latency",
                   "loss_rate", "current_error_rate"}

\* C12 (as claimed): get_statistics returns the no-data result when no attempt
\* has been recorded; whenever an outcome has been recorded (packet_loss is not
\* empty, total_transmissions > 0) it returns the aggregate statistics, and no
\* division raises.  After attempts that all ended in the except clause before
\* recording a latency, latency_data is empty and the no-data result is returned.
C12_StatisticsWhenHistory ==
    LET stats == get_statistics(Sim)
    IN /\ (packet_loss = <<>> /\ total_transmissions = 0) => stats = NoData
       /\ (packet_loss # <<>> \/ total_transmissions > 0) => DOMAIN stats = StatisticsKeys
       /\ "raises" \notin DOMAIN stats

(***************************************************************************)
(* Claims about the codec and the corruption model.                        *)
(***************************************************************************)
\* whether the packet on the wire is a Packet whose outcome transmit records
OnWire == wire.stage = "received" /\ wire.packet[1] = "Packet"

\* C13 (as claimed): an attempt is recorded as lost exactly when decode does
\* not recover the payload that was sent; an attempt recorded as successful
\* decoded a payload equal to the one sent, whatever position and mask
\* corrupt_data drew.  transmit records "decoded_data is None": a changed byte
\* inside the payload decodes to another payload and counts as a success.
C13_LostIffNotRecovered ==
    OnWire => (wire.lost <=> wire.decoded # wire.packet[2])

\* C14 (as claimed): for every payload encode accepts, decode(encode(p)) = p
\* when no byte was changed, and such an attempt is not recorded as lost.
C14_RoundTrip ==
    (OnWire /\ wire.received = wire.sent)
        => (wire.decoded = wire.packet[2] /\ ~wire.lost)

\* the positions at which two byte strings of one length differ
Changed(a, b) == {i \in 1..Len(a) : a[i] # b[i]}

\* C15: corrupt_data returns bytes of the length of its input that differ
\* from it in at most one position; on non-empty input with error_rate 1.0 in
\* exactly one; on empty input, or when the draw is not below error_rate, the
\* result is the input.
C15_OneByteAtMost ==
    wire.stage \in {"corrupted", "received"}
        => /\ Len(wire.received) = Len(wire.sent)
           /\ \A i \in 1..Len(wire.received) : wire.received[i] \in 0..255
           /\ Cardinality(Changed(wire.sent, wire.received)) <= 1
           /\ (wire.sent # <<>> /\ error_rate = Rat(1, 1))
                  => Cardinality(Changed(wire.sent, wire.received)) = 1
           /\ (wire.sent = <<>> \/ ~wire.hit) => wire.received = wire.sent

\* C15's case: with error_rate 1.0 the last byte of a packet came out with its
\* high bit set
C15_Witness ==
    /\ wire.stage = "corrupted"
    /\ error_rate = Rat(1, 1)
    /\ wire.hit
    /\ wire.sent # <<>>
    /\ wire.received[Len(wire.received)] >= 128

(***************************************************************************)
(* Claims about the histories over a run.                                  *)
(***************************************************************************)
\* whether list s is a prefix of list t
IsPrefix(s, t) == Len(s) <= Len(t) /\ SubSeq(t, 1, Len(s)) = s

\* C17: in every step latency_data and packet_loss stay as they are or are
\* extended at the end (no entry is changed, removed or moved), and
\* total_transmissions and successful_transmissions do not decrease.
C17_AppendOnly ==
    [][/\ IsPrefix(latency_data, latency_data')
       /\ IsPrefix(packet_loss, packet_loss')
       /\ total_transmissions' >= total_transmissions
       /\ successful_transmissions' >= successful_transmissions]_vars

\* C17's case: after a success was recorded, an attempt ended in the except
\* clause and further attempts were recorded behind it
C17_Witness ==
    /\ faults > 0
    /\ Len(packet_loss) >= 4
    /\ ~packet_loss[1]
    /\ packet_loss[2]
    /\ Len(latency_data) >= 3

\* C19: between attempts len(packet_loss) = total_transmissions,
\* len(latency_data) <= len(packet_loss), and len(packet_loss) minus
\* len(latency_data) is the number of times the except clause of transmit was
\* entered, whether encoding failed or save_statistics raised.
C19_ExceptionPathCount ==
    /\ Len(packet_loss) = total_transmissions
    /\ Len(latency_data) <= Len(packet_loss)
    /\ Len(packet_loss) - Len(latency_data) = faults

\* C19's case: the except clause was entered after save_statistics had raised
\* (a latency sample is recorded for which no CSV row was written), among
\* successful and lost attempts
C19_Witness ==
    /\ faults > 0
    /\ csv_rows < Len(latency_data)
    /\ successful_transmissions > 0
    /\ SumTrue(packet_loss) > 1

=============================================================================
